---- MODULE Spec2Model ----
(***************************************************************************)
(* Model of generate_invoice.py: filename parsing, discovery of generated *)
(* targets, sequence-number reconciliation and the main() workflow, with   *)
(* the two on-disk stores (invoices directory, invoice_number.txt) and the *)
(* two temporary artifacts as explicit state.  File names, counter file    *)
(* contents and prompt input are sequences of one-character strings, so    *)
(* formatting and parsing are computed character by character.             *)
(***************************************************************************)
EXTENDS Integers, Sequences, FiniteSets, TLC

\* ------------------------------------------------------------------ bounds
MaxRuns == 2
MaxDirFiles == 2

\* ------------------------------------------------- characters and numbers
Digits == {"0", "1", "2", "3", "4", "5", "6", "7", "8", "9"}

Whitespace == {" ", "\n", "\t"}

DigitVal(c) ==
  CASE c = "0" -> 0 [] c = "1" -> 1 [] c = "2" -> 2 [] c = "3" -> 3
    [] c = "4" -> 4 [] c = "5" -> 5 [] c = "6" -> 6 [] c = "7" -> 7
    [] c = "8" -> 8 [] c = "9" -> 9

DigitChar(d) ==
  CASE d = 0 -> "0" [] d = 1 -> "1" [] d = 2 -> "2" [] d = 3 -> "3"
    [] d = 4 -> "4" [] d = 5 -> "5" [] d = 6 -> "6" [] d = 7 -> "7"
    [] d = 8 -> "8" [] d = 9 -> "9"

IsDigits(s) == Len(s) >= 1 /\ \A i \in 1..Len(s) : s[i] \in Digits

\* int() of a string of decimal digits
RECURSIVE DigitsToInt(_)
DigitsToInt(s) ==
  IF Len(s) = 0 THEN 0
  ELSE DigitsToInt(SubSeq(s, 1, Len(s) - 1)) * 10 + DigitVal(s[Len(s)])

\* decimal digits of a natural number
RECURSIVE NatToStr(_)
NatToStr(n) ==
  IF n < 10 THEN <<DigitChar(n)>>
  ELSE NatToStr(n \div 10) \o <<DigitChar(n % 10)>>

\* str(n) / f"{n}"
IntToStr(n) == IF n < 0 THEN <<"-">> \o NatToStr(0 - n) ELSE NatToStr(n)

\* f"{n:0wd}" for n >= 0
RECURSIVE ZeroPad(_, _)
ZeroPad(s, w) == IF Len(s) >= w THEN s ELSE ZeroPad(<<"0">> \o s, w)

\* str.strip()
RECURSIVE LStrip(_)
LStrip(s) ==
  IF Len(s) > 0 /\ s[1] \in Whitespace THEN LStrip(Tail(s)) ELSE s

RECURSIVE RStrip(_)
RStrip(s) ==
  IF Len(s) > 0 /\ s[Len(s)] \in Whitespace
  THEN RStrip(SubSeq(s, 1, Len(s) - 1)) ELSE s

Strip(s) == RStrip(LStrip(s))

Max(a, b) == IF a >= b THEN a ELSE b

\* --------------------------------------------------------- InvoiceTarget
month_str(t) == ZeroPad(NatToStr(t.month), 2)

year_str(t) == ZeroPad(NatToStr(t.year), 4)

InvoiceTarget(m, y) == [month |-> m, year |-> y]

\* ------------------------------------------------------ filename parsing
LitInvoice == <<"I", "n", "v", "o", "i", "c", "e", "_">>

LitPdf == <<".", "p", "d", "f">>

NoParse == [year |-> -1, month |-> -1, number |-> -1]

HasPrefix(s, p) == Len(s) >= Len(p) /\ SubSeq(s, 1, Len(p)) = p

HasSuffix(s, p) ==
  Len(s) >= Len(p) /\ SubSeq(s, Len(s) - Len(p) + 1, Len(s)) = p

\* "$" also matches just before one trailing newline
DollarTrim(s) ==
  IF Len(s) > 0 /\ s[Len(s)] = "\n" THEN {s, SubSeq(s, 1, Len(s) - 1)}
  ELSE {s}

\* ^Invoice_(\d{a})_(\d{b})_#(\d+)\.pdf$ ; the three groups, or <<>>
MatchPattern(name, a, b) ==
  LET ok(s) ==
        /\ HasPrefix(s, LitInvoice)
        /\ HasSuffix(s, LitPdf)
        /\ Len(s) >= 8 + a + 1 + b + 2 + 1 + 4
        /\ IsDigits(SubSeq(s, 9, 8 + a))
        /\ s[9 + a] = "_"
        /\ IsDigits(SubSeq(s, 10 + a, 9 + a + b))
        /\ s[10 + a + b] = "_"
        /\ s[11 + a + b] = "#"
        /\ IsDigits(SubSeq(s, 12 + a + b, Len(s) - 4))
      cands == {s \in DollarTrim(name) : ok(s)}
  IN  IF cands = {} THEN <<>>
      ELSE LET s == CHOOSE c \in cands : TRUE
           IN  << SubSeq(s, 9, 8 + a),
                  SubSeq(s, 10 + a, 9 + a + b),
                  SubSeq(s, 12 + a + b, Len(s) - 4) >>

_parse_invoice_filename(name) ==
  LET m_new == MatchPattern(name, 4, 2)
      m_old == MatchPattern(name, 2, 4)
  IN  IF m_new # <<>>
      THEN [year |-> DigitsToInt(m_new[1]), month |-> DigitsToInt(m_new[2]),
            number |-> DigitsToInt(m_new[3])]
      ELSE IF m_old # <<>>
      THEN [year |-> DigitsToInt(m_old[2]), month |-> DigitsToInt(m_old[1]),
            number |-> DigitsToInt(m_old[3])]
      ELSE NoParse

\* invoices_dir.glob("Invoice_*.pdf")
Glob(names) ==
  {n \in names : HasPrefix(n, LitInvoice) /\ HasSuffix(n, LitPdf)
                 /\ Len(n) >= Len(LitInvoice) + Len(LitPdf)}

\* sorted() of a set of (year, month) tuples
TupleLess(p, q) == p[1] < q[1] \/ (p[1] = q[1] /\ p[2] < q[2])

RECURSIVE Sorted(_)
Sorted(S) ==
  IF S = {} THEN <<>>
  ELSE LET lo == CHOOSE p \in S : \A q \in S : p = q \/ TupleLess(p, q)
       IN  <<lo>> \o Sorted(S \ {lo})

\* variant: the month range test is left out
_list_generated_targets_unfiltered(exists, names) ==
  IF ~exists THEN <<>>
  ELSE LET parsed == {_parse_invoice_filename(n) : n \in Glob(names)}
           targets == {<<r.year, r.month>> : r \in {x \in parsed : x # NoParse}}
           ordered == Sorted(targets)
       IN  [i \in 1..Len(ordered) |->
              InvoiceTarget(ordered[i][2], ordered[i][1])]

_list_generated_targets(exists, names) ==
  IF ~exists THEN <<>>
  ELSE LET parsed == {_parse_invoice_filename(n) : n \in Glob(names)}
           targets == {<<r.year, r.month>> :
                        r \in {x \in parsed : x # NoParse /\ 1 <= x.month
                                              /\ x.month <= 12}}
           ordered == Sorted(targets)
       IN  [i \in 1..Len(ordered) |->
              InvoiceTarget(ordered[i][2], ordered[i][1])]

RECURSIVE SetMax(_)
SetMax(S) ==
  IF S = {} THEN 0
  ELSE LET x == CHOOSE y \in S : TRUE IN Max(x, SetMax(S \ {x}))

\* variant: the comparison is inverted ("number < max_n"), so max_n never
\* leaves 0 for the non-negative numbers of file names
_max_invoice_number_from_pdfs_inverted(exists, names) ==
  IF ~exists THEN 0
  ELSE LET nums == {r.number : r \in {x \in {_parse_invoice_filename(n) :
                                              n \in Glob(names)} : x # NoParse}}
       IN  IF \E n \in nums : n < 0
           THEN CHOOSE n \in nums : \A k \in nums : n <= k
           ELSE 0

_max_invoice_number_from_pdfs(exists, names) ==
  IF ~exists THEN 0
  ELSE SetMax({r.number : r \in {x \in {_parse_invoice_filename(n) :
                                          n \in Glob(names)} : x # NoParse}})

\* ------------------------------------------------------- counter file
\* int(raw) for raw over the characters used here: optional sign, digits
IntParses(raw) ==
  \/ IsDigits(raw)
  \/ Len(raw) >= 2 /\ raw[1] \in {"-", "+"} /\ IsDigits(Tail(raw))

IntOf(raw) ==
  IF raw[1] = "-" THEN 0 - DigitsToInt(Tail(raw))
  ELSE IF raw[1] = "+" THEN DigitsToInt(Tail(raw))
  ELSE DigitsToInt(raw)

\* variant: unreadable content is taken as 0 instead of raising
_read_last_invoice_number_defaulting(exists, text) ==
  IF ~exists THEN [raised |-> FALSE, value |-> 0]
  ELSE LET raw == Strip(text)
       IN  IF raw # <<>> /\ IntParses(raw)
           THEN [raised |-> FALSE, value |-> IntOf(raw)]
           ELSE [raised |-> FALSE, value |-> 0]

\* result: [raised |-> BOOLEAN, value |-> Int]
_read_last_invoice_number(exists, text) ==
  IF ~exists THEN [raised |-> FALSE, value |-> 0]
  ELSE LET raw == Strip(text)
       IN  IF raw = <<>> THEN [raised |-> FALSE, value |-> 0]
           ELSE IF IntParses(raw)
           THEN [raised |-> FALSE, value |-> IntOf(raw)]
           ELSE [raised |-> TRUE, value |-> 0]

\* f"{value}\n"
CounterText(value) == IntToStr(value) \o <<"\n">>

\* variant: the file names are not taken into account
NextNumber_file_only(last_from_file, last_from_pdfs) == last_from_file + 1

\* variant: the increment is missing
NextNumber_no_increment(last_from_file, last_from_pdfs) ==
  Max(last_from_file, last_from_pdfs)

NextNumber(last_from_file, last_from_pdfs) ==
  Max(last_from_file, last_from_pdfs) + 1

\* variant: the name is written month first, as in the legacy format
PdfName_month_first(target, next_number) ==
  LitInvoice \o month_str(target) \o <<"_">> \o year_str(target)
    \o <<"_", "#">> \o IntToStr(next_number) \o LitPdf

\* f"Invoice_{target.year_str}_{target.month_str}_#{next_number}.pdf"
PdfName(target, next_number) ==
  LitInvoice \o year_str(target) \o <<"_">> \o month_str(target)
    \o <<"_", "#">> \o IntToStr(next_number) \o LitPdf

\* ------------------------------------------------------------ _load_env
REQUIRED_ENV_KEYS ==
  {"COMPANY_NAME", "COMPANY_ID", "BILL_FROM", "BILL_TO", "SERVICE_TITLE",
   "SERVICE_DESC", "CURRENCY", "AMOUNT", "BENEFICIARY_NAME", "IBAN", "SWIFT",
   "BANK_NAME", "BANK_ADDRESS", "INTERMEDIARY_BANK_NAME",
   "INTERMEDIARY_BANK_SWIFT", "SUPPORT_EMAIL"}

NoneValue == "<None>"

\* keys whose value survives the "k is None or v is None" filter
LoadedKeys(values) == {k \in DOMAIN values : values[k] # NoneValue}

\* the list "missing" of _load_env
MissingKeys(values) ==
  {k \in REQUIRED_ENV_KEYS : k \notin LoadedKeys(values) \/ values[k] = ""}

\* ------------------------------------------------------- _prompt_target
\* result: [error |-> "" or the kind of ValueError, month, year]
PromptOk(m, y) == [error |-> "", month |-> m, year |-> y]

PromptErr(kind) == [error |-> kind, month |-> 0, year |-> 0]

IsDigitsBetween(s, lo, hi) == Len(s) >= lo /\ Len(s) <= hi /\ IsDigits(s)

\* positions of the separator c in s
SepAt(s, c) == {i \in 1..Len(s) : s[i] = c}

_prompt_target(input, default_year) ==
  LET raw == Strip(input)
      m1 == IsDigitsBetween(raw, 1, 2)
      m2s == {i \in SepAt(raw, "/") :
                /\ IsDigitsBetween(SubSeq(raw, 1, i - 1), 1, 2)
                /\ IsDigitsBetween(SubSeq(raw, i + 1, Len(raw)), 4, 4)}
      m3s == {i \in SepAt(raw, "-") :
                /\ IsDigitsBetween(SubSeq(raw, 1, i - 1), 4, 4)
                /\ IsDigitsBetween(SubSeq(raw, i + 1, Len(raw)), 1, 2)}
      check(month, year) ==
        IF ~(1 <= month /\ month <= 12) THEN PromptErr("month")
        ELSE IF ~(1900 <= year /\ year <= 3000) THEN PromptErr("year")
        ELSE PromptOk(month, year)
  IN  IF raw = <<>> THEN PromptErr("empty")
      ELSE IF m1 THEN check(DigitsToInt(raw), default_year)
      ELSE IF m2s # {}
      THEN LET i == CHOOSE j \in m2s : TRUE
           IN  check(DigitsToInt(SubSeq(raw, 1, i - 1)),
                     DigitsToInt(SubSeq(raw, i + 1, Len(raw))))
      ELSE IF m3s # {}
      THEN LET i == CHOOSE j \in m3s : TRUE
           IN  check(DigitsToInt(SubSeq(raw, i + 1, Len(raw))),
                     DigitsToInt(SubSeq(raw, 1, i - 1)))
      ELSE PromptErr("format")

\* ------------------------------------------------ _ensure_playwright_ready
\* tools: the set of executables found in PATH
_ensure_playwright_ready(tools) ==
  IF "node" \notin tools THEN "node"
  ELSE IF "python" \notin tools /\ "python3" \notin tools THEN "python"
  ELSE ""

\* ------------------------------------------------ inputs of the model
\* A file name of the directory together with the fields it was written
\* from: kind "new" is Invoice_YYYY_MM_#N.pdf, "old" is
\* Invoice_MM_YYYY_#N.pdf, "junk" is anything else.  The fields travel with
\* the file as its content; the program reads names only.
DataName(f1, f2, num) ==
  LitInvoice \o f1 \o <<"_">> \o f2 \o <<"_", "#">> \o num \o LitPdf

FileUniverse ==
  { [name |-> DataName(<<"2", "0", "2", "4">>, <<"0", "1">>, <<"3">>),
     kind |-> "new", y |-> 2024, m |-> 1, n |-> 3],
    [name |-> DataName(<<"0", "1">>, <<"2", "0", "2", "5">>, <<"7">>),
     kind |-> "old", y |-> 2025, m |-> 1, n |-> 7],
    [name |-> <<"n", "o", "t", "_", "a", "n", "_", "i", "n", "v", "o", "i",
                "c", "e">> \o LitPdf,
     kind |-> "junk", y |-> 0, m |-> 0, n |-> 0],
    [name |-> DataName(<<"2", "0", "2", "4">>, <<"1", "3">>, <<"9">>),
     kind |-> "new", y |-> 2024, m |-> 13, n |-> 9],
    [name |-> DataName(<<"2", "0", "2", "5">>, <<"0", "2">>, <<"4">>),
     kind |-> "new", y |-> 2025, m |-> 2, n |-> 4],
    [name |-> DataName(<<"2", "0", "2", "6">>, <<"0", "3">>, <<"1">>),
     kind |-> "new", y |-> 2026, m |-> 3, n |-> 1],
    [name |-> DataName(<<"0", "3">>, <<"2", "0", "2", "6">>, <<"2">>),
     kind |-> "old", y |-> 2026, m |-> 3, n |-> 2],
    [name |-> DataName(<<"2", "0", "2", "4">>, <<"1">>, <<"4">>),
     kind |-> "junk", y |-> 0, m |-> 0, n |-> 0],
    [name |-> DataName(<<"2", "0", "2", "4">>, <<"0", "1">>, <<"1", "0">>),
     kind |-> "new", y |-> 2024, m |-> 1, n |-> 10] }

\* A content of invoice_number.txt with what it denotes: kind "int" is an
\* integer (val), "blank" is empty or whitespace only, "bad" anything else.
CounterUniverse ==
  { [text |-> <<" ", "\n">>, kind |-> "blank", val |-> 0],
    [text |-> <<"5", "\n">>, kind |-> "int", val |-> 5],
    [text |-> <<"2">>, kind |-> "int", val |-> 2],
    [text |-> <<"-", "1", "\n">>, kind |-> "int", val |-> -1],
    [text |-> <<"1", "x">>, kind |-> "bad", val |-> 0] }

\* The state of invoice_number.txt: the program reads exists and text; kind
\* and val record what the text was written from.
CounterAbsent == [exists |-> FALSE, text |-> <<>>, kind |-> "absent", val |-> 0]

CounterFile(c) ==
  [exists |-> TRUE, text |-> c.text, kind |-> c.kind, val |-> c.val]

CounterStates == {CounterAbsent} \cup {CounterFile(c) : c \in CounterUniverse}

\* content of an older file of the directory / of a file placed by a run
OlderFile(u) == [by |-> 0, kind |-> u.kind, y |-> u.y, m |-> u.m, n |-> u.n]

NewFile(run, target, number) ==
  [by |-> run, kind |-> "new", y |-> target.year, m |-> target.month,
   n |-> number]

\* what the operator may type at the prompt
PromptInputs ==
  { <<>>, <<"3">>, <<"1", "3">>, <<"0", "3", "/", "2", "0", "2", "6">>,
    <<"2", "0", "2", "4", "-", "1">>, <<"a", "b", "c">>,
    <<"3", "/", "1", "8", "0", "0">>, <<" ", "0", "3", "\n">> }

\* date.today().year
TodayYear == 2026

\* results of dotenv_values: complete, a key absent, a key empty, a key
\* without value
FullEnv == [k \in REQUIRED_ENV_KEYS |-> "v"]

EnvChoices ==
  { FullEnv,
    [k \in REQUIRED_ENV_KEYS \ {"IBAN"} |-> "v"],
    [FullEnv EXCEPT !["COMPANY_NAME"] = ""],
    [FullEnv EXCEPT !["SWIFT"] = NoneValue] }

ToolChoices == { {"node", "python3"}, {"python", "python3"}, {"node"} }

\* the installation: complete, or with one defect, or with a missing key
\* and a missing tool at once
Worlds ==
  LET good == [envExists |-> TRUE, templateExists |-> TRUE,
               dotenv |-> FullEnv, tools |-> {"node", "python3"}]
  IN  {good, [good EXCEPT !.envExists = FALSE],
       [good EXCEPT !.templateExists = FALSE]}
      \cup {[good EXCEPT !.dotenv = e] : e \in EnvChoices}
      \cup {[good EXCEPT !.tools = t] : t \in ToolChoices}
      \cup {[good EXCEPT !.dotenv = [FullEnv EXCEPT !["COMPANY_NAME"] = ""],
                         !.tools = {"node"}]}

\* ------------------------------------------------------------- state
VARIABLES
  files,          \* invoices directory: file name -> content
  dirExists,      \* the invoices directory exists
  counter,        \* invoice_number.txt: [exists, text]
  temp_html,      \* invoice_temp.html exists
  temp_pdf,       \* invoice_temp.pdf exists
  envExists,      \* .env exists
  templateExists, \* invoice_template.html exists
  dotenv,         \* what dotenv_values(.env) returns
  tools,          \* executables in PATH
  pc,             \* position of main()
  runs,           \* completed invocations
  loc,            \* local variables of main()
  out,            \* what the invocation printed and how it ended
  pending,        \* the return or exception waiting for the finally block
  hist,           \* history of the current invocation
  issued          \* sequence numbers of the PDFs placed in the directory

vars == << files, dirExists, counter, temp_html, temp_pdf, envExists,
           templateExists, dotenv, tools, pc, runs, loc, out, pending, hist,
           issued >>

world == << envExists, templateExists, dotenv, tools >>

NoTarget == InvoiceTarget(0, 0)

LocInit ==
  [generated |-> <<>>, target |-> NoTarget, last_from_file |-> 0,
   last_from_pdfs |-> 0, next_number |-> 0, pdf_name |-> <<>>]

\* exit: -1 while running, else the value main() returned; raised: the
\* exception that left main(), "" if none
OutInit == [exit |-> -1, raised |-> "", printed |-> {}]

NoPending == [kind |-> "", code |-> -1, what |-> ""]

HistInit(c, f) ==
  [counterAtStart |-> c, filesAtStart |-> f, prompted |-> FALSE,
   read |-> FALSE, numbered |-> FALSE, created |-> {}, unlinkFailed |-> {},
   cleaned |-> FALSE, moved |-> FALSE, wrote |-> FALSE]

InitialDirs ==
  {S \in SUBSET FileUniverse : Cardinality(S) <= MaxDirFiles}

Init ==
  /\ \E S \in InitialDirs :
       /\ files = [name \in {u.name : u \in S} |->
                    OlderFile(CHOOSE u \in S : u.name = name)]
       /\ dirExists \in (IF S = {} THEN BOOLEAN ELSE {TRUE})
  /\ counter \in CounterStates
  /\ temp_html = FALSE
  /\ temp_pdf = FALSE
  /\ \E w \in Worlds :
       /\ envExists = w.envExists
       /\ templateExists = w.templateExists
       /\ dotenv = w.dotenv
       /\ tools = w.tools
  /\ pc = "idle"
  /\ runs = 0
  /\ loc = LocInit
  /\ out = OutInit
  /\ pending = NoPending
  /\ hist = HistInit(counter, files)
  /\ issued = <<>>

\* ------------------------------------------------------------ main()
\* print(message); return code       (outside the try block)
Returned(code, message) ==
  [out EXCEPT !.exit = code, !.printed = out.printed \cup {message}]

\* an exception leaves main()
Escaped(what) == [out EXCEPT !.raised = what]

IsDuplicate(generated, target) ==
  \E i \in 1..Len(generated) :
    generated[i].year = target.year /\ generated[i].month = target.month

\* lines 225-244: existence of .env and of the template, mkdir, discovery
StartRun ==
  /\ pc = "idle"
  /\ runs < MaxRuns
  /\ hist' = HistInit(counter, files)
  /\ IF ~envExists
     THEN /\ out' = Returned(1, "error:env_file")
          /\ pc' = "done"
          /\ UNCHANGED << dirExists, loc >>
     ELSE IF ~templateExists
     THEN /\ out' = Returned(1, "error:template")
          /\ pc' = "done"
          /\ UNCHANGED << dirExists, loc >>
     ELSE /\ dirExists' = TRUE
          /\ loc' = [loc EXCEPT !.generated =
                       _list_generated_targets(TRUE, DOMAIN files)]
          /\ out' = [out EXCEPT !.printed = out.printed \cup {"listing"}]
          /\ pc' = "prompt"
  /\ UNCHANGED << files, counter, temp_html, temp_pdf, world, runs, pending,
                  issued >>

\* lines 246-254: the prompt and the duplicate warning
Prompt ==
  /\ pc = "prompt"
  /\ \E input \in PromptInputs :
       LET r == _prompt_target(input, TodayYear)
           t == InvoiceTarget(r.month, r.year)
       IN  IF r.error # ""
           THEN /\ out' = Returned(1, "error:input")
                /\ pc' = "done"
                /\ UNCHANGED loc
           ELSE /\ loc' = [loc EXCEPT !.target = t]
                /\ out' = [out EXCEPT !.printed = out.printed \cup
                             (IF IsDuplicate(loc.generated, t)
                              THEN {"warning"} ELSE {})]
                /\ pc' = "ready"
  /\ hist' = [hist EXCEPT !.prompted = TRUE]
  /\ UNCHANGED << files, dirExists, counter, temp_html, temp_pdf, world, runs,
                  pending, issued >>

\* lines 256-289: tools, configuration, reconciliation, collision check
Prepare ==
  /\ pc = "ready"
  /\ LET tool == _ensure_playwright_ready(tools)
         r == _read_last_invoice_number(counter.exists, counter.text)
         last_from_pdfs == _max_invoice_number_from_pdfs(dirExists, DOMAIN files)
         next_number == NextNumber(r.value, last_from_pdfs)
         pdf_name == PdfName(loc.target, next_number)
     IN  IF tool # ""
         THEN /\ out' = Returned(1, "error:tool")
              /\ pc' = "done"
              /\ UNCHANGED << loc, hist >>
         ELSE IF MissingKeys(dotenv) # {}
         THEN /\ out' = Returned(1, "error:config")
              /\ pc' = "done"
              /\ UNCHANGED << loc, hist >>
         ELSE IF r.raised
         THEN /\ out' = Escaped("ValueError:counter")
              /\ pc' = "done"
              /\ hist' = [hist EXCEPT !.read = TRUE]
              /\ UNCHANGED loc
         ELSE /\ loc' = [loc EXCEPT !.last_from_file = r.value,
                                    !.last_from_pdfs = last_from_pdfs,
                                    !.next_number = next_number,
                                    !.pdf_name = pdf_name]
              /\ hist' = [hist EXCEPT !.read = TRUE, !.numbered = TRUE]
              /\ IF pdf_name \in DOMAIN files
                 THEN /\ out' = Returned(1, "error:collision")
                      /\ pc' = "done"
                 ELSE /\ out' = out
                      /\ pc' = "render"
  /\ UNCHANGED << files, dirExists, counter, temp_html, temp_pdf, world, runs,
                  pending, issued >>

Raise(what) == [kind |-> "raise", code |-> -1, what |-> what]

Return(code) == [kind |-> "return", code |-> code, what |-> ""]

\* lines 295-298: render the template, write invoice_temp.html
Render ==
  /\ pc = "render"
  /\ \/ /\ pending' = Raise("render")
        /\ UNCHANGED << temp_html, hist >>
        /\ pc' = "finally"
     \/ \E made \in BOOLEAN :
          /\ pending' = Raise("write_html")
          /\ temp_html' = (temp_html \/ made)
          /\ hist' = [hist EXCEPT !.created =
                        hist.created \cup (IF made THEN {"html"} ELSE {})]
          /\ pc' = "finally"
     \/ /\ temp_html' = TRUE
        /\ hist' = [hist EXCEPT !.created = hist.created \cup {"html"}]
        /\ pending' = pending
        /\ pc' = "convert"
  /\ UNCHANGED << files, dirExists, counter, temp_pdf, world, runs, loc, out,
                  issued >>

\* lines 300-303: convert to invoice_temp.pdf, check that it materialized
Convert ==
  /\ pc = "convert"
  /\ \E made \in BOOLEAN :
       /\ temp_pdf' = (temp_pdf \/ made)
       /\ hist' = [hist EXCEPT !.created =
                     hist.created \cup (IF made THEN {"pdf"} ELSE {})]
       /\ \/ /\ pending' = Raise("convert")
             /\ out' = out
             /\ pc' = "finally"
          \/ IF ~temp_pdf'
             THEN /\ out' = [out EXCEPT !.printed =
                               out.printed \cup {"error:no_pdf"}]
                  /\ pending' = Return(1)
                  /\ pc' = "finally"
             ELSE /\ out' = out
                  /\ pending' = pending
                  /\ pc' = "move"
  /\ UNCHANGED << files, dirExists, counter, temp_html, world, runs, loc,
                  issued >>

\* shutil.move(src, dst): dst is replaced if it exists
Placed(name, content) ==
  [n \in DOMAIN files \cup {name} |-> IF n = name THEN content ELSE files[n]]

PlacedPdf == Placed(loc.pdf_name, NewFile(runs + 1, loc.target, loc.next_number))

\* variant: the counter is persisted before the move is attempted
Move_counter_first ==
  /\ pc = "move"
  /\ counter' = [exists |-> TRUE, text |-> CounterText(loc.next_number),
                 kind |-> "int", val |-> loc.next_number]
  /\ \/ /\ files' = PlacedPdf
        /\ temp_pdf' = FALSE
        /\ issued' = Append(issued, loc.next_number)
        /\ hist' = [hist EXCEPT !.moved = TRUE]
        /\ pending' = pending
        /\ pc' = "write"
     \/ /\ pending' = Raise("move")
        /\ UNCHANGED << files, temp_pdf, issued, hist >>
        /\ pc' = "finally"
  /\ UNCHANGED << dirExists, temp_html, world, runs, loc, out >>

\* line 305: move invoice_temp.pdf to its final name.  The move may fail
\* leaving everything in place, or (copy done, source not removed) after
\* the destination was written.
Move ==
  /\ pc = "move"
  /\ \/ /\ files' = PlacedPdf
        /\ temp_pdf' = FALSE
        /\ issued' = Append(issued, loc.next_number)
        /\ hist' = [hist EXCEPT !.moved = TRUE]
        /\ pending' = pending
        /\ pc' = "write"
     \/ /\ pending' = Raise("move")
        /\ UNCHANGED << files, temp_pdf, issued, hist >>
        /\ pc' = "finally"
     \/ /\ files' = PlacedPdf
        /\ temp_pdf' = temp_pdf
        /\ issued' = Append(issued, loc.next_number)
        /\ hist' = [hist EXCEPT !.moved = TRUE]
        /\ pending' = Raise("move")
        /\ pc' = "finally"
  /\ UNCHANGED << dirExists, counter, temp_html, world, runs, loc, out >>

\* lines 306-309: persist the counter, report, return 0.  A failed write
\* leaves the file as it was or truncated.
WriteCounter ==
  /\ pc = "write"
  /\ \/ /\ counter' = [exists |-> TRUE, text |-> CounterText(loc.next_number),
                        kind |-> "int", val |-> loc.next_number]
        /\ hist' = [hist EXCEPT !.wrote = TRUE]
        /\ out' = [out EXCEPT !.printed = out.printed \cup {"generated"}]
        /\ pending' = Return(0)
     \/ /\ counter' \in {counter, CounterFile([text |-> <<>>, kind |-> "blank",
                                                val |-> 0])}
        /\ pending' = Raise("write_counter")
        /\ UNCHANGED << hist, out >>
  /\ pc' = "finally"
  /\ UNCHANGED << files, dirExists, temp_html, temp_pdf, world, runs, loc,
                  issued >>

\* variant: only invoice_temp.html is removed
Cleanup_html_only ==
  /\ pc = "finally"
  /\ \E failed \in SUBSET (IF temp_html THEN {"html"} ELSE {}) :
       /\ temp_html' = ("html" \in failed)
       /\ temp_pdf' = temp_pdf
       /\ hist' = [hist EXCEPT !.unlinkFailed = failed, !.cleaned = TRUE]
  /\ out' = IF pending.kind = "return"
            THEN [out EXCEPT !.exit = pending.code]
            ELSE [out EXCEPT !.raised = pending.what]
  /\ pending' = NoPending
  /\ pc' = "done"
  /\ UNCHANGED << files, dirExists, counter, world, runs, loc, issued >>

\* lines 310-316: remove both temporary files; a failing unlink is
\* swallowed.  Then the pending return or exception takes effect.
Cleanup ==
  /\ pc = "finally"
  /\ \E failed \in SUBSET ((IF temp_html THEN {"html"} ELSE {})
                           \cup (IF temp_pdf THEN {"pdf"} ELSE {})) :
       /\ temp_html' = ("html" \in failed)
       /\ temp_pdf' = ("pdf" \in failed)
       /\ hist' = [hist EXCEPT !.unlinkFailed = failed, !.cleaned = TRUE]
  /\ out' = IF pending.kind = "return"
            THEN [out EXCEPT !.exit = pending.code]
            ELSE Escaped(pending.what)
  /\ pending' = NoPending
  /\ pc' = "done"
  /\ UNCHANGED << files, dirExists, counter, world, runs, loc, issued >>

\* the process has ended; the next invocation starts afresh
EndRun ==
  /\ pc = "done"
  /\ pc' = "idle"
  /\ runs' = runs + 1
  /\ loc' = LocInit
  /\ out' = OutInit
  /\ hist' = HistInit(counter, files)
  /\ UNCHANGED << files, dirExists, counter, temp_html, temp_pdf, world,
                  pending, issued >>

\* between invocations the counter file may be lost or edited
EditCounter ==
  /\ pc = "idle"
  /\ runs < MaxRuns
  /\ \E c \in CounterStates :
       /\ c # counter
       /\ counter' = c
       /\ hist' = HistInit(c, files)
  /\ UNCHANGED << files, dirExists, temp_html, temp_pdf, world, pc, runs, loc,
                  out, pending, issued >>

Next ==
  \/ StartRun
  \/ Prompt
  \/ Prepare
  \/ Render
  \/ Convert
  \/ Move
  \/ WriteCounter
  \/ Cleanup
  \/ EndRun
  \/ EditCounter

Spec == Init /\ [][Next]_vars

TypeOK ==
  /\ pc \in {"idle", "prompt", "ready", "render", "convert", "move", "write",
             "finally", "done"}
  /\ runs \in 0..MaxRuns
  /\ temp_html \in BOOLEAN /\ temp_pdf \in BOOLEAN
  /\ out.exit \in {-1, 0, 1}
  /\ counter.exists \in BOOLEAN

\* ------------------------------------- the pure functions on their own
\* _list_generated_targets applied to a directory that may be absent
ListTargets ==
  /\ pc = "idle"
  /\ loc' = [loc EXCEPT !.generated =
               _list_generated_targets(dirExists, DOMAIN files)]
  /\ pc' = "listed"
  /\ UNCHANGED << files, dirExists, counter, temp_html, temp_pdf, world, runs,
                  out, pending, hist, issued >>

SpecFn == Init /\ [][ListTargets]_vars

\* ------------------------------------------------ what the files denote
\* the integer an invoice_number.txt state stands for (0 when absent)
DenotedCounter(c) == IF c.exists THEN c.val ELSE 0

\* the sequence numbers of the invoice files of a directory
DenotedNumbers(f) == {f[n].n : n \in {x \in DOMAIN f : f[x].kind # "junk"}}

\* the largest of them, 0 when there is none
DenotedMax(f) ==
  LET S == DenotedNumbers(f) \cup {0}
  IN  CHOOSE x \in S : \A y \in S : y <= x

\* the (year, month) pairs of the invoice files with a month in 1..12
DenotedTargets(f) ==
  {<<f[n].y, f[n].m>> :
     n \in {x \in DOMAIN f : f[x].kind # "junk" /\ f[x].m \in 1..12}}

InRun == pc \notin {"idle", "listed"}

\* ------------------------------------------------------------- claims
\* C1: the counter file is changed by a run only after that run's PDF stands
\* under its final name in the invoices directory, and a run that failed at
\* rendering, at conversion or because no PDF materialized leaves the
\* counter file as it found it.
C1_CounterOnlyAfterPdf ==
  /\ (InRun /\ counter # hist.counterAtStart) =>
       /\ loc.pdf_name \in DOMAIN files
       /\ files[loc.pdf_name].by = runs + 1
       /\ files[loc.pdf_name].n = loc.next_number
  /\ (InRun /\ counter.kind = "int" /\ counter # hist.counterAtStart) =>
       counter.val = files[loc.pdf_name].n
  /\ (pc = "done" /\ (out.raised \in {"render", "write_html", "convert"}
                      \/ "error:no_pdf" \in out.printed)) =>
       counter = hist.counterAtStart

C1_Witness ==
  /\ pc = "done"
  /\ out.exit = 0
  /\ counter # hist.counterAtStart
  /\ counter.text = <<"1", "0", "\n">>
  /\ loc.pdf_name \in DOMAIN files

\* C2: the numbers of the PDFs placed by successive runs are strictly
\* increasing, and each exceeds the number of every invoice file that was in
\* the directory before, whatever happened to the counter file in between
\* and even when a run failed after placing its PDF.
C2_NumbersNeverReused ==
  /\ \A i, j \in 1..Len(issued) : i < j => issued[i] < issued[j]
  /\ \A n \in DOMAIN files : \A i \in 1..Len(issued) :
       (files[n].kind # "junk" /\ files[n].by = 0) => files[n].n < issued[i]

C2_Witness ==
  /\ pc = "done"
  /\ out.exit = 0
  /\ Len(issued) = 2
  /\ loc.last_from_file < issued[1]
  /\ issued[2] = loc.next_number

\* C3: the next sequence number is max(c, m) + 1, with c the integer in the
\* counter file (0 when absent) and m the largest sequence number among the
\* invoice files of the directory (0 when there is none).
C3_NextIsMaxPlusOne ==
  (hist.numbered /\ hist.counterAtStart.kind \in {"absent", "int"}) =>
    loc.next_number =
      (IF DenotedCounter(hist.counterAtStart) >= DenotedMax(hist.filesAtStart)
       THEN DenotedCounter(hist.counterAtStart)
       ELSE DenotedMax(hist.filesAtStart)) + 1

C3_Witness ==
  /\ hist.numbered
  /\ ~hist.counterAtStart.exists
  /\ DenotedNumbers(hist.filesAtStart) = {2, 4}
  /\ loc.next_number = 5

\* C4: when a required configuration key is missing or empty the operator
\* is never prompted.
C4_ConfigCheckedBeforePrompt ==
  (InRun /\ envExists /\ templateExists /\ dotenv # FullEnv) => ~hist.prompted

\* C5: every run that ends has returned from main(): with 0, or with 1 after
\* printing an error message; no exception leaves main().
C5_AllErrorsCaught ==
  pc = "done" =>
    /\ out.raised = ""
    /\ \/ out.exit = 0
       \/ /\ out.exit = 1
          /\ out.printed \cap {"error:env_file", "error:template",
               "error:input", "error:tool", "error:config", "error:collision",
               "error:no_pdf"} # {}

\* C6 as stated: a counter file that is present and does not hold an integer
\* stops the run where it is read, with no PDF and no counter write.
C6_NonIntegerIsFatal ==
  (hist.read /\ hist.counterAtStart.exists
     /\ hist.counterAtStart.kind # "int") =>
    /\ pc = "done"
    /\ out.raised = "ValueError:counter"
    /\ files = hist.filesAtStart
    /\ counter = hist.counterAtStart

\* C6 amended: a counter file whose content, stripped of whitespace, is
\* non-empty and not an integer stops the run where it is read, with no PDF
\* and no counter write; an absent file and a file that is empty or holds
\* only whitespace both read as zero.
C6_NonBlankNonIntegerIsFatal ==
  /\ (hist.read /\ hist.counterAtStart.kind = "bad") =>
       /\ pc = "done"
       /\ out.raised = "ValueError:counter"
       /\ ~hist.numbered
       /\ files = hist.filesAtStart
       /\ counter = hist.counterAtStart
  /\ (hist.read /\ hist.counterAtStart.kind \in {"absent", "blank"}) =>
       /\ hist.numbered
       /\ loc.last_from_file = 0

C6_Witness ==
  /\ hist.read
  /\ hist.counterAtStart.text = <<"1", "x">>
  /\ out.raised = "ValueError:counter"

C8_RerunKeepsOlderInvoices ==
  ("warning" \in out.printed) =>
    /\ \A n \in DOMAIN hist.filesAtStart :
         n \in DOMAIN files /\ files[n] = hist.filesAtStart[n]
    /\ (pc = "done" /\ out.exit = 0) =>
         \E n \in DOMAIN files \ DOMAIN hist.filesAtStart :
           /\ DOMAIN files = DOMAIN hist.filesAtStart \cup {n}
           /\ MatchPattern(n, 4, 2) # <<>>
           /\ _parse_invoice_filename(n) =
                [year |-> loc.target.year, month |-> loc.target.month,
                 number |-> DenotedMax(hist.filesAtStart) + 1
                            + (IF DenotedCounter(hist.counterAtStart)
                                    > DenotedMax(hist.filesAtStart)
                               THEN DenotedCounter(hist.counterAtStart)
                                    - DenotedMax(hist.filesAtStart)
                               ELSE 0)]

C8_Witness ==
  /\ "warning" \in out.printed
  /\ pc = "done"
  /\ out.exit = 0
  /\ Cardinality(DOMAIN files) = Cardinality(DOMAIN hist.filesAtStart) + 1

\* C9: _list_generated_targets returns the (year, month) pairs of the
\* invoice files (either name format) with a month in 1..12, each once, in
\* ascending order by year then month; nothing for an absent directory.
C9_TargetsSortedDeduplicated ==
  pc = "listed" =>
    LET g == loc.generated
    IN  /\ {<<g[i].year, g[i].month>> : i \in 1..Len(g)} =
             (IF dirExists THEN DenotedTargets(files) ELSE {})
        /\ \A i \in 1..Len(g) : \A j \in 1..Len(g) :
             i < j => \/ g[i].year < g[j].year
                      \/ g[i].year = g[j].year /\ g[i].month < g[j].month

C9_Witness ==
  /\ pc = "listed"
  /\ Len(loc.generated) = 2
  /\ loc.generated[1] = InvoiceTarget(1, 2024)
  /\ loc.generated[2] = InvoiceTarget(1, 2025)

\* C10: no run ends in the collision error, and the name chosen for the PDF
\* is never the name of a file of the directory.
C10_CollisionUnreachable ==
  /\ "error:collision" \notin out.printed
  /\ hist.numbered => loc.pdf_name \notin DOMAIN hist.filesAtStart

C10_Witness ==
  /\ pc = "render"
  /\ hist.numbered
  /\ "warning" \in out.printed
  /\ loc.last_from_file < loc.last_from_pdfs
  /\ \E n \in DOMAIN files :
       files[n].kind = "new" /\ files[n].y = loc.target.year
         /\ files[n].m = loc.target.month
====
